---- MODULE Spec2Model ----
(***************************************************************************)
(* Model of src/bin/merge.rs: the piece/byte-range mapper, the file        *)
(* matcher, the virtual piece merger and the recovery loop merge_torrents. *)
(* Piece indices are 0-based as in the source; TLA+ sequences are 1-based, *)
(* so piece i lives at position i + 1 of pieces_states / pieces_hashes.    *)
(***************************************************************************)
EXTENDS Integers, Sequences, FiniteSets

VARIABLES pc, src, dst, src_disk, dst_disk, paused, same_files, file_pos,
          dst_filename, missing_pieces, piece_pos, unavailable_pieces,
          data_outside_file_block, restored_pieces, writes, before, last, call

vars == <<pc, src, dst, src_disk, dst_disk, paused, same_files, file_pos,
          dst_filename, missing_pieces, piece_pos, unavailable_pieces,
          data_outside_file_block, restored_pieces, writes, before, last, call>>

(***************************************************************************)
(* Bounds of the explored inputs.                                          *)
(***************************************************************************)
MaxFiles == 2

MaxFileSize == 3

MaxPieceSize == 2

Names == {"a", "b", "c"}

NameOrder == <<"a", "b", "c">>

\* piece sizes of the two torrents of a recovery pass (with size 1 every
\* piece starts and ends on every file boundary; the mapper functions are
\* applied to such layouts under MapSpec)
PieceSizes == 2..MaxPieceSize

\* piece sizes of the layouts the mapper functions are applied to
MapPieceSizes == 1..MaxPieceSize

PieceStates == {"Downloaded", "NotDownloaded"}

(***************************************************************************)
(* Results of fallible functions: Ok(v) / Err(msg).                        *)
(***************************************************************************)
Ok(v) == [ok |-> TRUE, val |-> v]

Err(msg) == [ok |-> FALSE, val |-> msg]

Min(x, y) == IF x < y THEN x ELSE y

DivCeil(x, y) == (x + y - 1) \div y

RECURSIVE SumSizes(_)
SumSizes(content) ==
    IF content = <<>> THEN 0
    ELSE Head(content).size + SumSizes(Tail(content))

\* mutant: a piece index beyond pieces_states counts as downloaded
piece_is_downloaded_BeyondIsTrue(torrent, piece) ==
    IF piece.idx + 1 \in DOMAIN torrent.pieces_states
    THEN torrent.pieces_states[piece.idx + 1] = "Downloaded"
    ELSE TRUE

(***************************************************************************)
(* Torrent::piece_is_downloaded                                            *)
(***************************************************************************)
piece_is_downloaded(torrent, piece) ==
    IF piece.idx + 1 \in DOMAIN torrent.pieces_states
    THEN torrent.pieces_states[piece.idx + 1] = "Downloaded"
    ELSE FALSE

(***************************************************************************)
(* get_sha1: a collision-free digest of the byte sequence.                 *)
(***************************************************************************)
get_sha1(data) == <<"sha1", data>>

(***************************************************************************)
(* FileBlock, TorrentPiece, VirtualPiece                                   *)
(***************************************************************************)
FileBlock(offset, size) == [offset |-> offset, size |-> size]

contains(self, other) ==
    /\ self.offset <= other.offset
    /\ self.offset + self.size >= other.offset + other.size

TorrentPiece(idx, piece_size) ==
    [kind |-> "TorrentPiece", idx |-> idx, piece_size |-> piece_size]

VirtualPiece(offset, piece_size) ==
    [kind |-> "VirtualPiece", offset |-> offset, piece_size |-> piece_size]

\* mutant: the size of the merged piece is one piece, not the whole run
merge_OnePieceSize(list) ==
    IF list = <<>> THEN Err("None")
    ELSE Ok(VirtualPiece(list[1].idx * list[1].piece_size, list[1].piece_size))

merge(list) ==
    IF list = <<>> THEN Err("None")
    ELSE Ok(VirtualPiece(list[1].idx * list[1].piece_size,
                         Len(list) * list[1].piece_size))

(***************************************************************************)
(* piece_to_file_block: walk the file list, subtracting each file's size   *)
(* from the running offset until it falls inside a file.                   *)
(***************************************************************************)
RECURSIVE WalkFiles(_, _, _)
WalkFiles(content, offset, size) ==
    IF content = <<>> THEN Err("Piece outside of torrent")
    ELSE IF offset < Head(content).size
         THEN Ok([name |-> Head(content).name, block |-> FileBlock(offset, size)])
         ELSE WalkFiles(Tail(content), offset - Head(content).size, size)

piece_to_file_block(torrent, piece) ==
    IF piece.kind = "TorrentPiece"
    THEN WalkFiles(torrent.content, piece.idx * piece.piece_size, piece.piece_size)
    ELSE WalkFiles(torrent.content, piece.offset, piece.piece_size)

(***************************************************************************)
(* file_block_to_pieces                                                    *)
(***************************************************************************)
\* mutant: the sizes of the preceding files are not added to the offset
RECURSIVE FindFileBlock_NoFileStart(_, _, _, _, _)
FindFileBlock_NoFileStart(content, offset, piece_size, path, file_block) ==
    IF content = <<>> THEN Err("File not found")
    ELSE IF Head(content).name = path
         THEN IF file_block.offset > Head(content).size
              THEN Err("Offset beyond file")
              ELSE LET off == offset + file_block.offset
                       start_idx == off \div piece_size
                       end_idx == DivCeil(off + file_block.size, piece_size)
                   IN Ok([k \in 1..(end_idx - start_idx) |->
                             TorrentPiece(start_idx + k - 1, piece_size)])
         ELSE FindFileBlock_NoFileStart(Tail(content), offset, piece_size, path,
                                        file_block)

RECURSIVE FindFileBlock(_, _, _, _, _)
FindFileBlock(content, offset, piece_size, path, file_block) ==
    IF content = <<>> THEN Err("File not found")
    ELSE IF Head(content).name = path
         THEN IF file_block.offset > Head(content).size
              THEN Err("Offset beyond file")
              ELSE LET off == offset + file_block.offset
                       start_idx == off \div piece_size
                       end_idx == DivCeil(off + file_block.size, piece_size)
                   IN Ok([k \in 1..(end_idx - start_idx) |->
                             TorrentPiece(start_idx + k - 1, piece_size)])
         ELSE FindFileBlock(Tail(content), offset + Head(content).size,
                            piece_size, path, file_block)

file_block_to_pieces(torrent, path, file_block) ==
    FindFileBlock(torrent.content, 0, torrent.piece_size, path, file_block)

(***************************************************************************)
(* get_file_offset, get_missing_pieces                                     *)
(***************************************************************************)
RECURSIVE FileOffsetFrom(_, _, _)
FileOffsetFrom(content, path, offset) ==
    IF content = <<>> THEN Err("File not found")
    ELSE IF Head(content).name = path THEN Ok(offset)
         ELSE FileOffsetFrom(Tail(content), path, offset + Head(content).size)

get_file_offset(torrent_content, path) == FileOffsetFrom(torrent_content, path, 0)

RECURSIVE FileSizeOf(_, _)
FileSizeOf(content, path) ==
    IF content = <<>> THEN 0
    ELSE IF Head(content).name = path THEN Head(content).size
         ELSE FileSizeOf(Tail(content), path)

RECURSIVE FilterIdx(_, _, _, _)
FilterIdx(states, idx, starting_idx, last_idx) ==
    IF idx >= Len(states) THEN <<>>
    ELSE (IF idx >= starting_idx /\ idx <= last_idx
             /\ states[idx + 1] # "Downloaded"
          THEN <<idx>> ELSE <<>>)
         \o FilterIdx(states, idx + 1, starting_idx, last_idx)

get_missing_pieces(torrent, path) ==
    LET piece_size == torrent.piece_size
        offset == get_file_offset(torrent.content, path).val
        starting_idx == offset \div piece_size
        file_size == FileSizeOf(torrent.content, path)
        n_pieces == file_size \div piece_size
        last_idx == starting_idx + n_pieces
    IN FilterIdx(torrent.pieces_states, 0, starting_idx, last_idx)

(***************************************************************************)
(* find_same_size_files: one pair (names in t1, names in t2) per size that *)
(* occurs in both torrents.  The pairs come out in the iteration order of  *)
(* a HashSet intersection, which is unspecified: the operator gives the    *)
(* set of vectors the call can return.                                     *)
(***************************************************************************)
RECURSIVE NamesOfSize(_, _)
NamesOfSize(content, size) ==
    IF content = <<>> THEN <<>>
    ELSE (IF Head(content).size = size THEN <<Head(content).name>> ELSE <<>>)
         \o NamesOfSize(Tail(content), size)

SizesOf(content) == {content[i].size : i \in DOMAIN content}

Range(seq) == {seq[i] : i \in DOMAIN seq}

find_same_size_files(t1, t2) ==
    LET common == SizesOf(t1.content) \cap SizesOf(t2.content)
        orders == {o \in [1..Cardinality(common) -> common] :
                      \A i, j \in DOMAIN o : i # j => o[i] # o[j]}
    IN {[k \in DOMAIN o |-> <<NamesOfSize(t1.content, o[k]),
                              NamesOfSize(t2.content, o[k])>>] : o \in orders}

(***************************************************************************)
(* convert_filename                                                        *)
(***************************************************************************)
RECURSIVE convert_filename(_, _)
convert_filename(pairs, filename) ==
    IF pairs = <<>> THEN Err("File not found")
    ELSE LET list_a == Head(pairs)[1]
             list_b == Head(pairs)[2]
         IN IF filename \in Range(list_a) THEN Ok(list_b[1])
            ELSE IF filename \in Range(list_b) THEN Ok(list_a[1])
            ELSE convert_filename(Tail(pairs), filename)

(***************************************************************************)
(* get_read_file / get_write_file: the path is under save_path when the    *)
(* torrent is complete and under temp_path otherwise; the open itself may  *)
(* fail (open_ok is the file system's answer).                             *)
(***************************************************************************)
FilePath(torrent_property, path) ==
    IF torrent_property.pieces_num = torrent_property.pieces_have
    THEN <<"save_path", path>>
    ELSE <<"temp_path", path>>

get_read_file(torrent_property, path, open_ok) ==
    IF open_ok THEN Ok(FilePath(torrent_property, path)) ELSE Err("open failed")

get_write_file(torrent_property, path, open_ok) ==
    IF open_ok THEN Ok(FilePath(torrent_property, path)) ELSE Err("open failed")

(***************************************************************************)
(* read_piece: seek + read_exact; a read that runs past the end of the     *)
(* file is a short read and fails.                                         *)
(***************************************************************************)
read_piece(bytes, file_block, io_ok) ==
    IF io_ok /\ file_block.offset + file_block.size <= Len(bytes)
    THEN Ok(SubSeq(bytes, file_block.offset + 1, file_block.offset + file_block.size))
    ELSE Err("failed to read")

(***************************************************************************)
(* write_piece: seek + write_all + flush.  A write past the current end    *)
(* of the file extends it (zero filled up to the seek position).           *)
(***************************************************************************)
write_piece(bytes, file_block, data) ==
    LET newlen == IF file_block.offset + Len(data) > Len(bytes)
                  THEN file_block.offset + Len(data) ELSE Len(bytes)
    IN [k \in 1..newlen |->
          IF k > file_block.offset /\ k <= file_block.offset + Len(data)
          THEN data[k - file_block.offset]
          ELSE IF k <= Len(bytes) THEN bytes[k] ELSE 0]

(***************************************************************************)
(* The torrents and files the daemon can report (Torrent::new).  A file's  *)
(* true bytes are a function of its name and the position in the file, so  *)
(* "a" holds the same data in both torrents, "c" is a renamed copy of "a"  *)
(* and "b" differs from both.  pieces_hashes are the digests of the true   *)
(* pieces of the torrent's own byte stream; the last piece may be short.   *)
(***************************************************************************)
ContentTag(name) == IF name = "b" THEN 2 ELSE 1

TrueBytes(name, size) == [k \in 1..size |-> 10 * ContentTag(name) + k]

RECURSIVE TrueStream(_)
TrueStream(content) ==
    IF content = <<>> THEN <<>>
    ELSE TrueBytes(Head(content).name, Head(content).size) \o TrueStream(Tail(content))

NumPieces(content, piece_size) == DivCeil(SumSizes(content), piece_size)

PieceBytes(stream, idx, piece_size) ==
    SubSeq(stream, idx * piece_size + 1, Min((idx + 1) * piece_size, Len(stream)))

CountDownloaded(states) == Cardinality({i \in DOMAIN states : states[i] = "Downloaded"})

Torrent(hash, content, piece_size, states) ==
    [hash |-> hash,
     piece_size |-> piece_size,
     pieces_num |-> Len(states),
     pieces_have |-> CountDownloaded(states),
     content |-> content,
     pieces_states |-> states,
     pieces_hashes |-> [i \in DOMAIN states |->
                           get_sha1(PieceBytes(TrueStream(content), i - 1, piece_size))]]

InjectiveSeqs(n) ==
    {s \in [1..n -> Names] : \A i, j \in 1..n : i # j => s[i] # s[j]}

SrcNameSeqs == UNION {InjectiveSeqs(n) : n \in 1..Min(MaxFiles, Cardinality(Names))}

DstNameSeqs == {SubSeq(NameOrder, 1, n) : n \in 1..Min(MaxFiles, Len(NameOrder))}

Contents(nameSeqs) ==
    UNION {{[i \in DOMAIN ns |-> [name |-> ns[i], size |-> sz[i]]] :
               sz \in [DOMAIN ns -> 0..MaxFileSize]} : ns \in nameSeqs}

Torrents(hash, nameSeqs, pieceSizes) ==
    UNION {UNION {{Torrent(hash, c, p, st) :
                      st \in [1..NumPieces(c, p) -> PieceStates]} :
                  p \in pieceSizes} : c \in Contents(nameSeqs)}

\* the layouts the mapper functions are applied to: every content and piece
\* size, with no piece, one piece or every piece downloaded
MapPieceStates(n) ==
    {[i \in 1..n |-> IF i \in D THEN "Downloaded" ELSE "NotDownloaded"] :
        D \in {{}, 1..n} \cup {{k} : k \in 1..n}}

MapTorrents ==
    UNION {UNION {{Torrent("dst", c, p, st) : st \in MapPieceStates(NumPieces(c, p))} :
                  p \in MapPieceSizes} : c \in Contents(DstNameSeqs)}

(***************************************************************************)
(* The files on disk: every file exists at its listed size.  A source file *)
(* holds its true bytes; a destination file holds the true bytes of its    *)
(* downloaded pieces and zeroes elsewhere.                                 *)
(***************************************************************************)
SrcDisk(torrent) ==
    [n \in {torrent.content[i].name : i \in DOMAIN torrent.content} |->
        TrueBytes(n, FileSizeOf(torrent.content, n))]

DstDisk(torrent) ==
    [n \in {torrent.content[i].name : i \in DOMAIN torrent.content} |->
        LET start == get_file_offset(torrent.content, n).val
        IN [k \in 1..FileSizeOf(torrent.content, n) |->
              IF piece_is_downloaded(torrent,
                     TorrentPiece((start + k - 1) \div torrent.piece_size,
                                  torrent.piece_size))
              THEN TrueBytes(n, k)[k] ELSE 0]]

(***************************************************************************)
(* One iteration of 'missing_pieces_loop in merge_torrents, for missing    *)
(* piece idx of the file dst_filename.  env is what the file system        *)
(* answers: whether each open, the read and the write succeed.  The result *)
(* records what the iteration did; outcome is one of                       *)
(*   no_source_file, unavailable, outside_file_block, read_failed,         *)
(*   hash_mismatch, restored          (the loop goes on), and              *)
(*   mapping_error, src_open_failed, dst_open_failed, write_failed         *)
(*                                      (unwrap / expect / panic!).        *)
(***************************************************************************)
NoBlock == FileBlock(0, 0)

NoIteration ==
    [idx |-> 0, outcome |-> "none", filename |-> "-", dst_file_block |-> NoBlock,
     src_filename |-> "-", src_pieces |-> <<>>, virt_src_file_block |-> NoBlock,
     src_read |-> FALSE, hashed |-> FALSE, data |-> <<>>, fault |-> "none"]

Env == [src_open_ok : BOOLEAN, read_ok : BOOLEAN, dst_open_ok : BOOLEAN, write_ok : BOOLEAN]

\* mutant: the slice is written without comparing the hashes
HashAndWrite_NoGate(it, buf, env) ==
    LET data_offset == it.dst_file_block.offset - it.virt_src_file_block.offset
        data == SubSeq(buf, data_offset + 1, data_offset + it.dst_file_block.size)
        hashed == [it EXCEPT !.hashed = TRUE, !.data = data]
    IN IF ~get_write_file(dst, dst_filename, env.dst_open_ok).ok
       THEN [hashed EXCEPT !.outcome = "dst_open_failed", !.fault = "dst_open"]
       ELSE IF ~env.write_ok
            THEN [hashed EXCEPT !.outcome = "write_failed", !.fault = "write"]
            ELSE [hashed EXCEPT !.outcome = "restored"]

\* slice the read buffer, hash the slice, write on a match
HashAndWrite(it, buf, env) ==
    LET missing_hash == dst.pieces_hashes[it.idx + 1]
        data_offset == it.dst_file_block.offset - it.virt_src_file_block.offset
        data == SubSeq(buf, data_offset + 1, data_offset + it.dst_file_block.size)
        computed_hash == get_sha1(data)
        hashed == [it EXCEPT !.hashed = TRUE, !.data = data]
    IN IF computed_hash = missing_hash
       THEN IF ~get_write_file(dst, dst_filename, env.dst_open_ok).ok
            THEN [hashed EXCEPT !.outcome = "dst_open_failed", !.fault = "dst_open"]
            ELSE IF ~env.write_ok
                 THEN [hashed EXCEPT !.outcome = "write_failed", !.fault = "write"]
                 ELSE [hashed EXCEPT !.outcome = "restored"]
       ELSE [hashed EXCEPT !.outcome = "hash_mismatch"]

\* open the source file, merge the source pieces, check the
\* containment, read the merged block
ReadSource(it, env) ==
    LET src_f == get_read_file(src, it.src_filename, env.src_open_ok)
        virt_src_piece == merge(it.src_pieces)
        virt == piece_to_file_block(src, virt_src_piece.val)
        merged == [it EXCEPT !.virt_src_file_block = virt.val.block]
        buf == read_piece(src_disk[it.src_filename], virt.val.block, env.read_ok)
    IN IF ~src_f.ok
       THEN [it EXCEPT !.outcome = "src_open_failed", !.fault = "src_open"]
       ELSE IF ~virt_src_piece.ok THEN [it EXCEPT !.outcome = "mapping_error"]
       ELSE IF ~virt.ok THEN [it EXCEPT !.outcome = "mapping_error"]
       ELSE IF ~contains(virt.val.block, it.dst_file_block)
            THEN [merged EXCEPT !.outcome = "outside_file_block"]
       ELSE IF ~buf.ok
            THEN [merged EXCEPT !.outcome = "read_failed", !.src_read = TRUE,
                                !.fault = IF env.read_ok THEN "none" ELSE "read_io"]
       ELSE HashAndWrite([merged EXCEPT !.src_read = TRUE], buf.val, env)

\* map the destination piece, resolve the source file name,
\* map the block to source pieces, check that all of them are downloaded
LoopBody(idx, env) ==
    LET dst_piece == TorrentPiece(idx, dst.piece_size)
        mapped == piece_to_file_block(dst, dst_piece)
        it1 == [NoIteration EXCEPT !.idx = idx]
        it2 == [it1 EXCEPT !.filename = mapped.val.name,
                           !.dst_file_block = mapped.val.block]
        converted == convert_filename(same_files, it2.filename)
        it3 == [it2 EXCEPT !.src_filename = converted.val]
        pieces == file_block_to_pieces(src, it3.src_filename, it3.dst_file_block)
        it4 == [it3 EXCEPT !.src_pieces = pieces.val]
    IN IF ~mapped.ok THEN [it1 EXCEPT !.outcome = "mapping_error"]
       ELSE IF ~converted.ok THEN [it2 EXCEPT !.outcome = "no_source_file"]
       ELSE IF ~pieces.ok THEN [it3 EXCEPT !.outcome = "mapping_error"]
       ELSE IF \E k \in DOMAIN it4.src_pieces :
                  ~piece_is_downloaded(src, it4.src_pieces[k])
            THEN [it4 EXCEPT !.outcome = "unavailable"]
       ELSE ReadSource(it4, env)

Skips == {"no_source_file", "unavailable", "outside_file_block", "read_failed",
          "hash_mismatch"}

Panics == {"mapping_error", "src_open_failed", "dst_open_failed", "write_failed"}

(***************************************************************************)
(* State machine of merge_torrents(api, src_hash, dst_hash).               *)
(***************************************************************************)
NoTorrent == Torrent("-", <<>>, 1, <<>>)

\* the loop's position and counters at the start of the latest iteration
Counters ==
    [restored |-> restored_pieces, unavailable |-> unavailable_pieces,
     outside |-> data_outside_file_block, writes |-> Len(writes),
     file_pos |-> file_pos, piece_pos |-> piece_pos,
     dst_filename |-> dst_filename]

\* mutant: a failed read ends the process like a failed open
NextPc_ReadAborts(outcome) ==
    IF outcome \in Panics \cup {"read_failed"} THEN "panicked" ELSE "piece"

\* 'continue' and falling off the loop body go on to the next piece; a failed
\* unwrap / expect / panic! ends the process
NextPc(outcome) == IF outcome \in Panics THEN "panicked" ELSE "piece"

NoCall == [op |-> "none"]

Init ==
    /\ pc = "get_preferences"
    /\ src = NoTorrent
    /\ dst = NoTorrent
    /\ src_disk = <<>>
    /\ dst_disk = <<>>
    /\ paused = FALSE
    /\ same_files = <<>>
    /\ file_pos = 0
    /\ dst_filename = "-"
    /\ missing_pieces = <<>>
    /\ piece_pos = 0
    /\ unavailable_pieces = 0
    /\ data_outside_file_block = 0
    /\ restored_pieces = 0
    /\ writes = <<>>
    /\ before = Counters
    /\ last = NoIteration
    /\ call = NoCall

\* api.get_preferences().await.unwrap()
GetPreferences ==
    /\ pc = "get_preferences"
    /\ \E api_ok \in BOOLEAN :
          pc' = IF api_ok THEN "load_src" ELSE "panicked"
    /\ UNCHANGED <<src, dst, src_disk, dst_disk, paused, same_files, file_pos,
                   dst_filename, missing_pieces, piece_pos, unavailable_pieces,
                   data_outside_file_block, restored_pieces, writes, before, last, call>>

\* let src_torrent = Torrent::new(&api, src_hash).await?
LoadSrc ==
    /\ pc = "load_src"
    /\ \/ /\ \E t \in Torrents("src", SrcNameSeqs, PieceSizes) :
                /\ src' = t
                /\ src_disk' = SrcDisk(t)
          /\ pc' = "load_dst"
       \/ /\ pc' = "error"
          /\ UNCHANGED <<src, src_disk>>
    /\ UNCHANGED <<dst, dst_disk, paused, same_files, file_pos,
                   dst_filename, missing_pieces, piece_pos, unavailable_pieces,
                   data_outside_file_block, restored_pieces, writes, before, last, call>>

\* let dst_torrent = Torrent::new(&api, dst_hash).await?
LoadDst ==
    /\ pc = "load_dst"
    /\ \/ /\ \E t \in Torrents("dst", DstNameSeqs, PieceSizes) :
                /\ dst' = t
                /\ dst_disk' = DstDisk(t)
          /\ pc' = "pause"
       \/ /\ pc' = "error"
          /\ UNCHANGED <<dst, dst_disk>>
    /\ UNCHANGED <<src, src_disk, paused, same_files, file_pos,
                   dst_filename, missing_pieces, piece_pos, unavailable_pieces,
                   data_outside_file_block, restored_pieces, writes, before, last, call>>

\* mutant: the result of the pause command is ignored
PauseResult_Ignored(api_ok) == [pc |-> "match", paused |-> api_ok]

\* api.pause_torrents(&[dst_torrent.hash.clone()]).await?
PauseResult(api_ok) ==
    IF api_ok THEN [pc |-> "match", paused |-> TRUE]
    ELSE [pc |-> "error", paused |-> FALSE]

Pause ==
    /\ pc = "pause"
    /\ \E api_ok \in BOOLEAN :
          /\ pc' = PauseResult(api_ok).pc
          /\ paused' = PauseResult(api_ok).paused
    /\ UNCHANGED <<src, dst, src_disk, dst_disk, same_files, file_pos,
                   dst_filename, missing_pieces, piece_pos, unavailable_pieces,
                   data_outside_file_block, restored_pieces, writes, before, last, call>>

\* let same_files = find_same_size_files(&src_torrent, &dst_torrent)
FindSameSizeFiles ==
    /\ pc = "match"
    /\ same_files' \in find_same_size_files(src, dst)
    /\ file_pos' = 1
    /\ pc' = "file"
    /\ UNCHANGED <<src, dst, src_disk, dst_disk, paused,
                   dst_filename, missing_pieces, piece_pos, unavailable_pieces,
                   data_outside_file_block, restored_pieces, writes, before, last, call>>

\* for same_file in &same_files { let dst_filename = &same_file.1[0]; ... }
NextFile ==
    /\ pc = "file"
    /\ file_pos <= Len(same_files)
    /\ dst_filename' = same_files[file_pos][2][1]
    /\ missing_pieces' = get_missing_pieces(dst, same_files[file_pos][2][1])
    /\ piece_pos' = 1
    /\ pc' = "piece"
    /\ UNCHANGED <<src, dst, src_disk, dst_disk, paused, same_files, file_pos,
                   unavailable_pieces, data_outside_file_block, restored_pieces,
                   writes, before, last, call>>

\* the body of 'missing_pieces_loop for the next missing piece
ProcessPiece ==
    /\ pc = "piece"
    /\ piece_pos <= Len(missing_pieces)
    /\ \E env \in Env :
          LET it == LoopBody(missing_pieces[piece_pos], env)
          IN /\ last' = it
             /\ before' = Counters
             /\ pc' = NextPc(it.outcome)
             /\ piece_pos' = IF NextPc(it.outcome) = "panicked" THEN piece_pos
                             ELSE piece_pos + 1
             /\ unavailable_pieces' =
                   IF it.outcome \in {"unavailable", "read_failed"}
                   THEN unavailable_pieces + 1 ELSE unavailable_pieces
             /\ data_outside_file_block' =
                   IF it.outcome = "outside_file_block"
                   THEN data_outside_file_block + 1 ELSE data_outside_file_block
             /\ restored_pieces' =
                   IF it.outcome = "restored"
                   THEN restored_pieces + 1 ELSE restored_pieces
             /\ IF it.outcome = "restored"
                THEN /\ dst_disk' = [dst_disk EXCEPT ![dst_filename] =
                            write_piece(@, it.dst_file_block, it.data)]
                     /\ writes' = Append(writes,
                            [path |-> get_write_file(dst, dst_filename, TRUE).val,
                             file |-> dst_filename,
                             block |-> it.dst_file_block,
                             len |-> Len(it.data),
                             idx |-> it.idx])
                ELSE UNCHANGED <<dst_disk, writes>>
    /\ UNCHANGED <<src, dst, src_disk, paused, same_files, file_pos,
                   dst_filename, missing_pieces, call>>

\* end of the inner loop: on to the next matched file
EndFile ==
    /\ pc = "piece"
    /\ piece_pos > Len(missing_pieces)
    /\ file_pos' = file_pos + 1
    /\ pc' = "file"
    /\ UNCHANGED <<src, dst, src_disk, dst_disk, paused, same_files,
                   dst_filename, missing_pieces, piece_pos, unavailable_pieces,
                   data_outside_file_block, restored_pieces, writes, before, last, call>>

\* info!("Restored pieces: ..."), ...; Ok(())
Report ==
    /\ pc = "file"
    /\ file_pos > Len(same_files)
    /\ pc' = "done"
    /\ UNCHANGED <<src, dst, src_disk, dst_disk, paused, same_files, file_pos,
                   dst_filename, missing_pieces, piece_pos, unavailable_pieces,
                   data_outside_file_block, restored_pieces, writes, before, last, call>>

Next ==
    \/ GetPreferences
    \/ LoadSrc
    \/ LoadDst
    \/ Pause
    \/ FindSameSizeFiles
    \/ NextFile
    \/ ProcessPiece
    \/ EndFile
    \/ Report

Spec == Init /\ [][Next]_vars

(***************************************************************************)
(* The mapper functions on their own: a torrent layout is drawn, then      *)
(* piece_to_file_block, file_block_to_pieces, TorrentPiece::merge and      *)
(* get_missing_pieces are applied to it; call holds the latest call.       *)
(***************************************************************************)
MapInit ==
    /\ pc = "map"
    /\ src = NoTorrent
    /\ dst \in MapTorrents
    /\ src_disk = <<>>
    /\ dst_disk = <<>>
    /\ paused = FALSE
    /\ same_files = <<>>
    /\ file_pos = 0
    /\ dst_filename = "-"
    /\ missing_pieces = <<>>
    /\ piece_pos = 0
    /\ unavailable_pieces = 0
    /\ data_outside_file_block = 0
    /\ restored_pieces = 0
    /\ writes = <<>>
    /\ before = Counters
    /\ last = NoIteration
    /\ call = NoCall

MapUnchanged ==
    UNCHANGED <<pc, src, dst, src_disk, dst_disk, paused, same_files, file_pos,
                dst_filename, missing_pieces, piece_pos, unavailable_pieces,
                data_outside_file_block, restored_pieces, writes, before, last>>

\* piece_to_file_block(torrent, &Piece::TorrentPiece(TorrentPiece { idx, .. }))
CallPieceToFileBlock ==
    /\ pc = "map"
    /\ \E idx \in 0..Len(dst.pieces_states) :
          call' = [op |-> "piece_to_file_block", idx |-> idx,
                   res |-> piece_to_file_block(dst, TorrentPiece(idx, dst.piece_size))]
    /\ MapUnchanged

\* file_block_to_pieces applied to what piece_to_file_block returned
CallFileBlockToPieces ==
    /\ pc = "map"
    /\ call.op = "piece_to_file_block"
    /\ call.res.ok
    /\ call' = [op |-> "file_block_to_pieces", idx |-> call.idx,
                path |-> call.res.val.name, block |-> call.res.val.block,
                res |-> file_block_to_pieces(dst, call.res.val.name,
                                             call.res.val.block)]
    /\ MapUnchanged

\* TorrentPiece::merge on the run [first, first + count - 1], then
\* piece_to_file_block on the VirtualPiece
CallMerge ==
    /\ pc = "map"
    /\ \E first \in 0..(Len(dst.pieces_states) - 1) :
       \E count \in 1..(Len(dst.pieces_states) - first) :
          LET list == [k \in 1..count |-> TorrentPiece(first + k - 1, dst.piece_size)]
              virt == merge(list)
          IN call' = [op |-> "merge", list |-> list, res |-> virt,
                      mapped |-> piece_to_file_block(dst, virt.val)]
    /\ MapUnchanged

\* get_missing_pieces(torrent, path)
CallGetMissingPieces ==
    /\ pc = "map"
    /\ \E k \in DOMAIN dst.content :
          call' = [op |-> "get_missing_pieces", path |-> dst.content[k].name,
                   res |-> get_missing_pieces(dst, dst.content[k].name)]
    /\ MapUnchanged

MapNext ==
    \/ CallPieceToFileBlock
    \/ CallFileBlockToPieces
    \/ CallMerge
    \/ CallGetMissingPieces

MapSpec == MapInit /\ [][MapNext]_vars

(***************************************************************************)
(* Properties of the mapper functions (checked under MapSpec).             *)
(***************************************************************************)
FileStart(torrent, path) == get_file_offset(torrent.content, path).val

\* the pieces whose byte range [i*p, (i+1)*p) overlaps the file's range
\* [file_start, file_start + file_size) of the logical byte stream
OverlappingPieces(torrent, path) ==
    LET start == FileStart(torrent, path)
        size == FileSizeOf(torrent.content, path)
    IN {i \in 0..(Len(torrent.pieces_states) - 1) :
           /\ size > 0
           /\ i * torrent.piece_size < start + size
           /\ (i + 1) * torrent.piece_size > start}

\* C4: get_missing_pieces returns exactly the pieces that overlap the file's
\* byte range and are not Downloaded: none left out, none added.
C4_MissingAreOverlapping ==
    call.op = "get_missing_pieces" =>
        Range(call.res) = {i \in OverlappingPieces(dst, call.path) :
                              dst.pieces_states[i + 1] # "Downloaded"}

\* C5: for every piece index i with i * piece_size below the sum of the file
\* sizes, piece_to_file_block succeeds, and file_block_to_pieces applied to
\* the file name and block it returned succeeds with a list that contains i.
C5_RoundTrip ==
    /\ (call.op = "piece_to_file_block"
        /\ call.idx * dst.piece_size < SumSizes(dst.content)) => call.res.ok
    /\ call.op = "file_block_to_pieces" =>
          /\ call.res.ok
          /\ \E k \in DOMAIN call.res.val : call.res.val[k].idx = call.idx

\* the round trip was made for a piece that starts in the second file
C5_Witness ==
    /\ call.op = "file_block_to_pieces"
    /\ Len(dst.content) = 2
    /\ call.path = dst.content[2].name
    /\ call.idx > 0
    /\ call.block.offset > 0
    /\ call.res.ok

MergeOffsetSize ==
    /\ call.res.ok
    /\ call.res.val.offset = call.list[1].idx * dst.piece_size
    /\ call.res.val.piece_size = Len(call.list) * dst.piece_size
    /\ call.mapped.ok

PieceBlock(piece) == piece_to_file_block(dst, piece).val

\* C6 as stated: merging a contiguous run gives offset i*p and size k*p, and
\* the FileBlock of the VirtualPiece contains the FileBlock of every piece
\* of the run.
C6_Original ==
    call.op = "merge" =>
        /\ MergeOffsetSize
        /\ \A k \in DOMAIN call.list :
              contains(call.mapped.val.block, PieceBlock(call.list[k]).block)

\* C6 amended: merging a contiguous run gives offset i*p and size k*p, and
\* the FileBlock of the VirtualPiece contains the FileBlock of every piece
\* of the run that piece_to_file_block maps to the same file as the
\* VirtualPiece (the file the run starts in).
C6_Amended ==
    call.op = "merge" =>
        /\ MergeOffsetSize
        /\ \A k \in DOMAIN call.list :
              PieceBlock(call.list[k]).name = call.mapped.val.name =>
                 contains(call.mapped.val.block, PieceBlock(call.list[k]).block)

\* a run of two or more pieces starting past piece 0, with at least two of
\* them in the file the run starts in
C6_Witness ==
    /\ call.op = "merge"
    /\ Len(call.list) >= 2
    /\ call.list[1].idx > 0
    /\ PieceBlock(call.list[2]).name = call.mapped.val.name
    /\ PieceBlock(call.list[2]).block.offset > call.mapped.val.block.offset

(***************************************************************************)
(* Properties of the recovery pass (checked under Spec).  last is the      *)
(* latest iteration of the missing-pieces loop, before the counters and    *)
(* loop position it started from.                                          *)
(***************************************************************************)
Iterated == last.outcome # "none"

WroteNow == Len(writes) = before.writes + 1

NoWriteNow == Len(writes) = before.writes

\* the SHA-1 of the bytes sliced out of the read buffer equals the expected
\* hash of the destination piece
HashesMatch ==
    /\ last.hashed
    /\ get_sha1(last.data) = dst.pieces_hashes[last.idx + 1]

\* C1: in an iteration that runs to its end, bytes are written iff the
\* SHA-1 of the slice of the source buffer equals pieces_hashes[idx]; no
\* iteration, a panicking one included, writes without that match; on a
\* mismatch nothing is written and restored_pieces stays as it was.
C1_HashGate ==
    Iterated =>
        /\ last.outcome \notin Panics => (WroteNow <=> HashesMatch)
        /\ WroteNow => /\ HashesMatch
                       /\ writes[Len(writes)].len = Len(last.data)
                       /\ restored_pieces = before.restored + 1
        /\ (last.hashed /\ ~HashesMatch) =>
              /\ NoWriteNow
              /\ restored_pieces = before.restored
              /\ last.outcome = "hash_mismatch"

\* a piece was restored earlier in the pass and the latest iteration read
\* source bytes whose hash differs from the expected one
C1_Witness ==
    /\ last.outcome = "hash_mismatch"
    /\ last.hashed
    /\ ~HashesMatch
    /\ restored_pieces > 0

WriteTarget(w) == piece_to_file_block(dst, TorrentPiece(w.idx, dst.piece_size)).val

\* C2: every write goes into the file piece_to_file_block mapped the piece
\* to, at dst_block.offset within that file.
C2_WriteIntoMappedFile ==
    \A k \in DOMAIN writes :
        /\ writes[k].file = WriteTarget(writes[k]).name
        /\ writes[k].block.offset = WriteTarget(writes[k]).block.offset

SrcPieceAvailable(piece) ==
    /\ piece.idx < Len(src.pieces_states)
    /\ src.pieces_states[piece.idx + 1] = "Downloaded"

UnavailableSrcPieces ==
    {k \in DOMAIN last.src_pieces : ~SrcPieceAvailable(last.src_pieces[k])}

\* C3: when a source piece that file_block_to_pieces returned for the block
\* is not Downloaded (or lies beyond the source's piece states), the
\* iteration reads nothing from the source, writes nothing, and adds exactly
\* 1 to unavailable_pieces, however many source pieces are unavailable.
C3_UnavailabilityGate ==
    (Iterated /\ UnavailableSrcPieces # {}) =>
        /\ last.outcome = "unavailable"
        /\ ~last.src_read
        /\ NoWriteNow
        /\ unavailable_pieces = before.unavailable + 1
        /\ restored_pieces = before.restored
        /\ data_outside_file_block = before.outside

\* the block needs two source pieces, both unavailable, one of them beyond
\* the source's piece states
C3_Witness ==
    /\ Iterated
    /\ Cardinality(UnavailableSrcPieces) >= 2
    /\ \E k \in DOMAIN last.src_pieces :
          last.src_pieces[k].idx >= Len(src.pieces_states)
    /\ unavailable_pieces = before.unavailable + 1

\* C7: preconditions of the restore guarantee, for the latest iteration
C7_Restorable ==
    LET file == before.dst_filename
        size == FileSizeOf(dst.content, file)
        begin == last.idx * dst.piece_size - FileStart(dst, file)
        src_names == NamesOfSize(src.content, size)
        src_begin == FileStart(src, src_names[1]) + begin
    IN /\ Iterated
       /\ Len(src_names) = 1
       /\ Len(NamesOfSize(dst.content, size)) = 1
       /\ begin >= 0
       /\ begin + dst.piece_size <= size
       /\ \A j \in 0..(src_begin + dst.piece_size) :
             (j * src.piece_size < src_begin + dst.piece_size
              /\ (j + 1) * src.piece_size > src_begin)
                => SrcPieceAvailable(TorrentPiece(j, src.piece_size))
       /\ last.fault = "none"
       /\ get_sha1(SubSeq(src_disk[src_names[1]], begin + 1,
                          begin + dst.piece_size))
             = dst.pieces_hashes[last.idx + 1]

\* C7: a non-downloaded piece wholly inside a file matched to exactly one
\* source file, whose spanning source pieces are all Downloaded, whose
\* source file is readable and whose source bytes have the expected hash,
\* is restored: restored_pieces + 1, the other counters unchanged, and the
\* destination bytes of the range equal the source bytes.
C7_RestoresRecoverablePiece ==
    C7_Restorable =>
        LET file == before.dst_filename
            size == FileSizeOf(dst.content, file)
            begin == last.idx * dst.piece_size - FileStart(dst, file)
            src_name == NamesOfSize(src.content, size)[1]
        IN /\ last.outcome = "restored"
           /\ restored_pieces = before.restored + 1
           /\ unavailable_pieces = before.unavailable
           /\ data_outside_file_block = before.outside
           /\ SubSeq(dst_disk[file], begin + 1, begin + dst.piece_size)
                 = SubSeq(src_disk[src_name], begin + 1, begin + dst.piece_size)

C9_WriteWithinFile ==
    \A k \in DOMAIN writes :
        writes[k].block.offset + writes[k].len
            <= FileSizeOf(dst.content, writes[k].file)

\* C10: a write happens only after the pause succeeded, and a pass that
\* ended with an error (a failed snapshot load or pause) wrote nothing.
C10_PauseBeforeWrite ==
    /\ Len(writes) > 0 => paused
    /\ Iterated => paused
    /\ pc = "error" =>
          /\ writes = <<>>
          /\ ~Iterated
          /\ ~paused
          /\ dst_disk = IF dst = NoTorrent THEN <<>> ELSE DstDisk(dst)

\* a piece was written to a destination file
C10_Witness ==
    /\ Len(writes) > 0
    /\ paused
    /\ dst_disk # DstDisk(dst)

====
